---- MODULE Spec2Model ----
(***************************************************************************)
(* Model of whois-parser (src/unnamed/part_000): the transport client      *)
(* whoisQuery and the parsing engine parseWhoisData with its date          *)
(* normaliser.                                                             *)
(*                                                                         *)
(* Text is a sequence of code points, each written as a string: "a", " ",  *)
(* "\n".  A code point outside ASCII is written by its name ("U+767B").    *)
(* A JavaScript value that may be null is an option: None for null,        *)
(* Some(v) for the value v, so that the empty string Some(<<>>) and null   *)
(* stay different.                                                         *)
(***************************************************************************)
EXTENDS Integers, Sequences, FiniteSets, TLC

VARIABLES
    \* one call whoisQuery(domain, server, timeout)
    domain, server, timeout,
    sock,         \* the socket: "connecting", "open", "ended" (the peer's FIN was
                  \* read, the socket is about to close) or "destroyed"
    connections,  \* the number of net.createConnection calls made
    written,      \* what socket.write was given, in order
    data,         \* the handler's accumulated text
    promise,      \* the promise whoisQuery returned
    now,          \* milliseconds since the call
    idleSince,    \* when the socket's idle timer was last restarted
    received,     \* history: the chunks delivered, in order
    events,       \* history: the socket events delivered, in order
    \* a second call whoisQuery running at the same time
    call,         \* the call whose closure the variables above are: 1 or 2
    other,        \* the closure of the other call, None when there is one call
    \* one call parseWhoisData(rawText, fallbackDomain) in the year clockYear
    rawText, fallbackDomain, clockYear,
    pieces,       \* history: the number of pieces rawText was put together from
    parsed,       \* None before the call, Some(what it returned) after
    \* a later call parseWhoisData(rawText, fallbackDomain) in the year laterYear
    reparsed, laterYear,
    \* a call parseWhoisData on rawText with every LF made CRLF
    parsedCRLF,
    \* one call normalizeDateString(dateInput)
    dateInput,
    dateShape,    \* history: how dateInput was put together
    normalized    \* None before the call, Some(what it returned) after

transportVars == <<domain, server, timeout, sock, connections, written, data, promise,
                   now, idleSince, received, events, call, other>>
parseVars == <<rawText, fallbackDomain, clockYear, pieces, parsed, reparsed, laterYear,
              parsedCRLF>>
dateVars == <<dateInput, dateShape, normalized>>
vars == <<transportVars, parseVars, dateVars>>

None == <<>>
Some(v) == <<v>>
IsSome(o) == o # None
Val(o) == o[1]

Range(f) == {f[k] : k \in DOMAIN f}

\* F of the value of x: x is evaluated once, before F (call by value).
With(x, F(_)) == CHOOSE r \in {F(v) : v \in {x}} : TRUE

Max2(a, b) == IF a >= b THEN a ELSE b
Min2(a, b) == IF a <= b THEN a ELSE b

(***************************************************************************)
(* Characters                                                              *)
(***************************************************************************)
UpperSeq == <<"A","B","C","D","E","F","G","H","I","J","K","L","M",
              "N","O","P","Q","R","<<",">>T","U","V","W","X","Y","Z">>
LowerSeq == <<"a","b","c","d","e","f","g","h","i","j","k","l","m",
              "n","o","p","q","r","s","t","u","v","w","x","y","z">>
UpperSet == Range(UpperSeq)
LowerSet == Range(LowerSeq)
DigitSet == {"0","1","2","3","4","5","6","7","8","9"}

\* ECMAScript LineTerminator and WhiteSpace (String.prototype.trim and \s
\* take both); "." matches any code point that is no LineTerminator.
LineTerminators == {"\n", "\r"}
WhiteSpace == {" ", "\t"} \cup LineTerminators

LowerMap ==
    [A |-> "a", B |-> "b", C |-> "c", D |-> "d", E |-> "e", F |-> "f", G |->
     "g", H |-> "h", I |-> "i", J |-> "j", K |-> "k", L |-> "l", M |-> "m", N
     |-> "n", O |-> "o", P |-> "p", Q |-> "q", R |-> "r", S |-> "s", T |->
     "t", U |-> "u", V |-> "v", W |-> "w", X |-> "x", Y |-> "y", Z |-> "z"]

\* String.prototype.toLowerCase on one code point
toLowerCaseChar(c) == IF c \in UpperSet THEN LowerMap[c] ELSE c

\* String.prototype.toLowerCase
toLowerCase(s) == [k \in 1..Len(s) |-> toLowerCaseChar(s[k])]

(***************************************************************************)
(* Regular expressions, as the patterns of the source use them.  A pattern *)
(* is a sequence of elements:                                              *)
(*   Lit(cs)            the characters cs                                  *)
(*   Cls(k)             one character of class k                           *)
(*   Rep(a, lo, hi, z)  a{lo,hi} over a one-character atom a, hi = Inf for *)
(*                      no upper limit, lazy when z                        *)
(*   AltLit(css)        (?:cs1|cs2|...) over literals                      *)
(*   GrpOpen(n), GrpClose(n)  the parentheses of capture group n           *)
(*   Ahead(ps)          (?=p1|p2|...) over patterns                        *)
(*   Bos, Eos           ^ and $ (no m flag: start and end of the input)    *)
(* MatchSeq gives the match a backtracking matcher finds first: each       *)
(* element's ways to match are taken in its order of preference (a greedy  *)
(* repetition the longest first, a lazy one the shortest first), the first *)
(* way after which the rest of the pattern matches being the one kept.     *)
(***************************************************************************)
Inf == -1
Lit(cs) == [t |-> "lit", cs |-> cs]
Cls(k) == [t |-> "cls", k |-> k]
Rep(a, lo, hi, z) == [t |-> "rep", a |-> a, lo |-> lo, hi |-> hi, z |-> z]
AltLit(css) == [t |-> "altlit", css |-> css]
GrpOpen(n) == [t |-> "open", n |-> n]
GrpClose(n) == [t |-> "close", n |-> n]
Ahead(ps) == [t |-> "ahead", ps |-> ps]
Bos == [t |-> "bos"]
Eos == [t |-> "eos"]
Star(a) == Rep(a, 0, Inf, FALSE)
Plus(a) == Rep(a, 1, Inf, FALSE)
StarLazy(a) == Rep(a, 0, Inf, TRUE)
Opt(a) == Rep(a, 0, 1, FALSE)
Times(a, n) == Rep(a, n, n, FALSE)

\* Character classes: . \s \d \w [\.\s] [\s\S] [A-Z]; ci is the i flag, under
\* which [A-Z] takes the lower-case letters too.
InClass(c, k, ci) ==
    CASE k = "dot"      -> c \notin LineTerminators
      [] k = "space"    -> c \in WhiteSpace
      [] k = "digit"    -> c \in DigitSet
      [] k = "word"     -> c \in UpperSet \cup LowerSet \cup DigitSet \cup {"_"}
      [] k = "dotspace" -> c = "." \/ c \in WhiteSpace
      [] k = "any"      -> TRUE
      [] k = "upper"    -> c \in UpperSet \/ (ci /\ c \in LowerSet)

EqChar(a, b, ci) == IF ci THEN toLowerCaseChar(a) = toLowerCaseChar(b) ELSE a = b

\* Whether the one-character atom a (Cls or Lit of length 1) takes s[i].
AtomAt(a, s, i, ci) ==
    /\ i <= Len(s)
    /\ IF a.t = "cls" THEN InClass(s[i], a.k, ci) ELSE EqChar(s[i], a.cs[1], ci)

\* The number of consecutive characters from s[i] that atom a takes, at most cap
\* ([\s\S] takes every character there is).
RunLen(a, s, i, ci, cap) ==
    IF a.t = "cls" /\ a.k = "any" THEN Min2(cap, Max2(Len(s) - i + 1, 0))
    ELSE Min2(cap, (CHOOSE k \in i..(Len(s) + 1) :
                       /\ ~AtomAt(a, s, k, ci)
                       /\ \A j \in i..(k - 1) : AtomAt(a, s, j, ci)) - i)

LitAt(cs, s, i, ci) ==
    /\ i + Len(cs) - 1 <= Len(s)
    /\ \A k \in 1..Len(cs) : EqChar(s[i + k - 1], cs[k], ci)

\* The least and the greatest of a non-empty set of numbers.
Least(S) == CHOOSE x \in S : \A y \in S : x <= y
Greatest(S) == CHOOSE x \in S : \A y \in S : x >= y

NoCaptures(ng) == [k \in 1..ng |-> <<0, 0>>]

RECURSIVE Reach(_, _, _, _, _, _)
RECURSIVE Ends(_, _, _, _)

\* The positions after the ways element r matches at position i of s, in the
\* order a backtracking matcher tries them.
Ends(r, s, i, ci) ==
    CASE r.t = "lit" -> IF LitAt(r.cs, s, i, ci) THEN <<i + Len(r.cs)>> ELSE <<>>
      [] r.t = "cls" -> IF AtomAt(r, s, i, ci) THEN <<i + 1>> ELSE <<>>
      [] r.t = "rep" ->
            With(RunLen(r.a, s, i, ci, IF r.hi = Inf THEN Len(s) + 1 ELSE r.hi),
                 LAMBDA m : IF m < r.lo THEN <<>>
                            ELSE [k \in 1..(m - r.lo + 1) |->
                                    IF r.z THEN i + r.lo + k - 1 ELSE i + m - k + 1])
      [] r.t = "altlit" ->
            With(SelectSeq(r.css, LAMBDA cs : LitAt(cs, s, i, ci)),
                 LAMBDA found : [k \in 1..Len(found) |-> i + Len(found[k])])
      [] r.t = "ahead" ->
            IF \E a \in 1..Len(r.ps) :
                  \E after \in {Reach(r.ps[a], s, ci, 1, Len(r.ps[a]), {i})} :
                      after[Len(after)] # {}
            THEN <<i>> ELSE <<>>
      [] r.t = "bos" -> IF i = 1 THEN <<i>> ELSE <<>>
      [] r.t = "eos" -> IF i = Len(s) + 1 THEN <<i>> ELSE <<>>

\* The matcher goes through the elements of a pattern in three passes, each
\* over the elements a..b and each halving its range, so that a pass over the
\* first half is finished before the pass over the second half starts
\* (CHOOSE r \in {F(v) : v \in {x}} : TRUE is With(x, F) written out).

\* <<R[a+1], ..., R[b+1]>>, where R[a] = from and R[k+1] holds the positions
\* after the ways element k matches at a position of R[k].
Reach(rs, s, ci, a, b, from) ==
    IF a = b
    THEN IF rs[a].t \in {"open", "close"} THEN <<from>>
         ELSE <<UNION {{es[j] : j \in 1..Len(es)} : es \in {Ends(rs[a], s, i, ci) : i \in from}}>>
    ELSE CHOOSE all \in {lo \o Reach(rs, s, ci, ((a + b) \div 2) + 1, b, lo[Len(lo)]) :
                           lo \in {Reach(rs, s, ci, a, (a + b) \div 2, from)}} : TRUE

RECURSIVE Can(_, _, _, _, _, _, _)
\* <<C[a], ..., C[b]>>, where C[b+1] = after and C[k] holds the positions of
\* reach[k] at which element k has a way to match that ends in C[k+1]: the
\* positions from which the elements k.. match.
Can(rs, s, ci, reach, a, b, after) ==
    IF a = b
    THEN IF rs[a].t \in {"open", "close"} THEN <<after>>
         ELSE <<{i \in reach[a] : \E es \in {Ends(rs[a], s, i, ci)} :
                                     \E j \in 1..Len(es) : es[j] \in after}>>
    ELSE CHOOSE all \in {Can(rs, s, ci, reach, a, (a + b) \div 2, hi[1]) \o hi :
                           hi \in {Can(rs, s, ci, reach, ((a + b) \div 2) + 1, b, after)}} : TRUE

RECURSIVE Walk(_, _, _, _, _, _, _)
\* The match [b, e, c] (begin, position reached, captures) after the elements
\* a..b, from the match st before them, as a backtracking matcher ends up with
\* it: every element is matched the first way in its order of preference after
\* which the rest of the pattern matches (no pattern of the source refers back
\* to a capture, so whether the rest matches depends on the position alone).
Walk(rs, s, ci, can, a, b, st) ==
    IF a = b
    THEN IF rs[a].t = "open"
         THEN [st EXCEPT !.c[rs[a].n] = <<st.e, st.e>>]
         ELSE IF rs[a].t = "close"
         THEN [st EXCEPT !.c[rs[a].n] = <<st.c[rs[a].n][1], st.e>>]
         ELSE With(Ends(rs[a], s, st.e, ci), LAMBDA es :
                   [st EXCEPT !.e = es[Least({j \in 1..Len(es) : es[j] \in can[a + 1]})]])
    ELSE CHOOSE end \in {Walk(rs, s, ci, can, ((a + b) \div 2) + 1, b, mid) :
                           mid \in {Walk(rs, s, ci, can, a, (a + b) \div 2, st)}} : TRUE

\* The leftmost match of the elements rs (at least one) that starts at a
\* position of from, as a backtracking matcher finds it:
\* Some([b, e, c]) (begin, position after the end, captures), or None.
MatchSeq(rs, s, from, ng, ci) ==
    IF from = {} THEN None
    ELSE
    With(<<from>> \o Reach(rs, s, ci, 1, Len(rs), from), LAMBDA reach :
    With(Can(rs, s, ci, reach, 1, Len(rs), reach[Len(rs) + 1]) \o <<reach[Len(rs) + 1]>>,
         LAMBDA can :
    IF can[1] = {} THEN None
    ELSE Some(Walk(rs, s, ci, can, 1, Len(rs),
                   [b |-> Least(can[1]), e |-> Least(can[1]), c |-> NoCaptures(ng)]))))

\* A regular expression object: pattern, number of groups, the i flag.
RegExp(rs, ng, ci) == [rs |-> rs, ng |-> ng, ci |-> ci]

\* Whether a match of the elements rs can start at position b of s: the first
\* element, when it is no parenthesis, matches there.
CanStart(rs, s, b, ci) == rs[1].t \in {"open", "close"} \/ Ends(rs[1], s, b, ci) # <<>>

\* RegExp.prototype.exec from position i on.
ExecFrom(re, s, i) ==
    MatchSeq(re.rs, s, {b \in i..(Len(s) + 1) : CanStart(re.rs, s, b, re.ci)}, re.ng, re.ci)

Slice(s, b, e) == SubSeq(s, b, e - 1)

\* String.prototype.match with a regular expression without the g flag:
\* None, or Some of <<whole match, group 1, ..., group ng>>.
match(str, regexp) ==
    With(regexp, LAMBDA re : With(ExecFrom(re, str, 1), LAMBDA x :
        IF x = None THEN None
        ELSE Some(<<Slice(str, Val(x).b, Val(x).e)>> \o
                  [k \in 1..re.ng |-> Slice(str, Val(x).c[k][1], Val(x).c[k][2])])))

RECURSIVE MatchAllFrom(_, _, _)
MatchAllFrom(re, s, i) ==
    With(ExecFrom(re, s, i), LAMBDA x :
        IF x = None THEN <<>>
        ELSE <<Slice(s, Val(x).b, Val(x).e)>> \o
             MatchAllFrom(re, s, IF Val(x).e = Val(x).b THEN Val(x).e + 1 ELSE Val(x).e))

\* String.prototype.match with the g flag: None, or Some of the list of every
\* whole match, leftmost first, none overlapping.
matchAll(str, regexp) ==
    With(regexp, LAMBDA re : With(MatchAllFrom(re, str, 1), LAMBDA ms :
        IF ms = <<>> THEN None ELSE Some(ms)))

(***************************************************************************)
(* String methods                                                          *)
(***************************************************************************)
\* String.prototype.trim
trim(str) ==
    With(str, LAMBDA s : With({k \in 1..Len(s) : s[k] \notin WhiteSpace}, LAMBDA inked :
        IF inked = {} THEN <<>> ELSE SubSeq(s, Least(inked), Greatest(inked))))

\* String.prototype.split with a one-character separator: the parts between
\* the places of the separator, the start and the end of the string.
split(str, sep) ==
    With(str, LAMBDA s :
    With({0, Len(s) + 1} \cup {k \in 1..Len(s) : s[k] = sep}, LAMBDA cuts :
    With([j \in 1..Cardinality(cuts) |->
             CHOOSE x \in cuts : Cardinality({y \in cuts : y < x}) = j - 1], LAMBDA at :
        [j \in 1..(Len(at) - 1) |-> SubSeq(s, at[j] + 1, at[j + 1] - 1)])))

\* s.split(/\s+/)[0]: the characters before the first white space
firstWord(str) ==
    With(str, LAMBDA s : With({k \in 1..Len(s) : s[k] \in WhiteSpace}, LAMBDA blanks :
        IF blanks = {} THEN s ELSE SubSeq(s, 1, Least(blanks) - 1)))

\* String.prototype.startsWith
startsWith(s, p) == LitAt(p, s, 1, FALSE)

\* String.prototype.padStart(2, '0')
padStart2(s) == IF Len(s) < 2 THEN [k \in 1..(2 - Len(s)) |-> "0"] \o s ELSE s

\* value.replace(/\.$/, '')
removeTrailingDot(s) ==
    IF s # <<>> /\ s[Len(s)] = "." THEN SubSeq(s, 1, Len(s) - 1) ELSE s

RECURSIVE IntToStr(_)
\* The decimal digits of a natural number
IntToStr(n) ==
    LET d == <<"0","1","2","3","4","5","6","7","8","9">>[(n % 10) + 1]
    IN  IF n < 10 THEN <<d>> ELSE IntToStr(n \div 10) \o <<d>>

\* A value in a condition: a string is true when not empty, null is false, an
\* array is true whatever it holds.
TruthyString(o) == IsSome(o) /\ Val(o) # <<>>
TruthyArray(a) == TRUE

\* What stands for a TypeError raised by a method call on undefined.
TypeError == <<"TypeError">>

(***************************************************************************)
(* normalizeDateString                                                     *)
(***************************************************************************)
monthNames == <<<<"j","a","n","u","a","r","y">>, <<"f","e","b","r","u","a","r","y">>, <<"m","a","r","c","h">>, <<"a","p","r","i","l">>, <<"m","a","y">>, <<"j","u","n","e">>,
                <<"j","u","l","y">>, <<"a","u","g","u","s","t">>, <<"s","e","p","t","e","m","b","e","r">>, <<"o","c","t","o","b","e","r">>, <<"n","o","v","e","m","b","e","r">>,
                <<"d","e","c","e","m","b","e","r">>>>
monthNums == <<<<"0","1">>, <<"0","2">>, <<"0","3">>, <<"0","4">>, <<"0","5">>, <<"0","6">>,
               <<"0","7">>, <<"0","8">>, <<"0","9">>, <<"1","0">>, <<"1","1">>, <<"1","2">>>>

\* What a template literal makes of the two values every object literal
\* inherits under an all-lower-case key: Object.prototype.constructor and
\* Object.prototype.__proto__.
ObjectConstructorText == <<"f","u","n","c","t","i","o","n"," ","O","b","j","e","c","t","(",")"," ","{"," ","[","n","a","t","i","v","e"," ","c","o","d","e","]"," ","}">>
ObjectPrototypeText == <<"[","o","b","j","e","c","t"," ","O","b","j","e","c","t","]">>

\* monthMap[key], as the template literal prints it: None when undefined.
monthMap(key) ==
    IF \E k \in 1..12 : monthNames[k] = key
    THEN Some(monthNums[CHOOSE k \in 1..12 : monthNames[k] = key])
    ELSE IF key = <<"c","o","n","s","t","r","u","c","t","o","r">> THEN Some(ObjectConstructorText)
    ELSE IF key = <<"_","_","p","r","o","t","o","_","_">> THEN Some(ObjectPrototypeText)
    ELSE None

\* (rs) as capture group n
Group(n, rs) == <<GrpOpen(n)>> \o rs \o <<GrpClose(n)>>

\* (?:st|nd|rd|th)
ordinalSuffix == AltLit(<<<<"s","t">>, <<"n","d">>, <<"r","d">>, <<"t","h">>>>)

\* /(\d+)(?:st|nd|rd|th)\s+(\w+)\s+(\d{4})/i
ggRe == RegExp(Group(1, <<Plus(Cls("digit"))>>) \o <<ordinalSuffix, Plus(Cls("space"))>>
               \o Group(2, <<Plus(Cls("word"))>>) \o <<Plus(Cls("space"))>>
               \o Group(3, <<Times(Cls("digit"), 4)>>), 3, TRUE)

\* /(\d+)(?:st|nd|rd|th)\s+(\w+)\s+each year/i
recurringRe == RegExp(Group(1, <<Plus(Cls("digit"))>>)
                      \o <<ordinalSuffix, Plus(Cls("space"))>>
                      \o Group(2, <<Plus(Cls("word"))>>)
                      \o <<Plus(Cls("space")), Lit(<<"e","a","c","h"," ","y","e","a","r">>)>>, 2, TRUE)

\* /^(\d{4})\/(\d{2})\/(\d{2})$/
jpRe == RegExp(<<Bos>> \o Group(1, <<Times(Cls("digit"), 4)>>) \o <<Lit(<<"/">>)>>
               \o Group(2, <<Times(Cls("digit"), 2)>>) \o <<Lit(<<"/">>)>>
               \o Group(3, <<Times(Cls("digit"), 2)>>) \o <<Eos>>, 3, FALSE)

\* /^(\d{4})\.\s*(\d{2})\.\s*(\d{2})\.?$/
krRe == RegExp(<<Bos>> \o Group(1, <<Times(Cls("digit"), 4)>>)
               \o <<Lit(<<".">>), Star(Cls("space"))>>
               \o Group(2, <<Times(Cls("digit"), 2)>>)
               \o <<Lit(<<".">>), Star(Cls("space"))>>
               \o Group(3, <<Times(Cls("digit"), 2)>>)
               \o <<Opt(Lit(<<".">>)), Eos>>, 3, FALSE)

midnight == <<"T","0","0",":","0","0",":","0","0","Z">>

\* `${year}-${month}-${day}T00:00:00Z`
isoDate(y, m, d) == y \o <<"-">> \o m \o <<"-">> \o d \o midnight

\* monthMap[match[2].toLowerCase()] of a match of ggRe or recurringRe, None
\* without a match.
monthOf(found) ==
    IF found = None THEN None ELSE monthMap(toLowerCase(Val(found)[3]))

\* normalizeDateString(dateStr), thisYear being new Date().getFullYear().
normalizeDateString(dateStr, thisYear) ==
    With(dateStr, LAMBDA given :
    IF ~TruthyString(given) THEN None
    ELSE
    With(match(Val(given), ggRe), LAMBDA ggMatch :
    IF monthOf(ggMatch) # None
    THEN Some(isoDate(Val(ggMatch)[4], Val(monthOf(ggMatch)), padStart2(Val(ggMatch)[2])))
    ELSE
    With(match(Val(given), recurringRe), LAMBDA recurringMatch :
    IF monthOf(recurringMatch) # None
    THEN Some(isoDate(IntToStr(thisYear + 1), Val(monthOf(recurringMatch)),
                      padStart2(Val(recurringMatch)[2])))
    ELSE
    With(match(Val(given), jpRe), LAMBDA jpMatch :
    IF jpMatch # None
    THEN Some(isoDate(Val(jpMatch)[2], Val(jpMatch)[3], Val(jpMatch)[4]))
    ELSE
    With(match(Val(given), krRe), LAMBDA krMatch :
    IF krMatch # None
    THEN Some(isoDate(Val(krMatch)[2], Val(krMatch)[3], Val(krMatch)[4]))
    ELSE given)))))

(***************************************************************************)
(* parseWhoisData: the field strategies.  A label put into a pattern by    *)
(* new RegExp(`${f}...`) holds letters and spaces only, so it is a literal. *)
(***************************************************************************)
\* (.+)
valueGroup == Group(1, <<Plus(Cls("dot"))>>)

\* new RegExp(`${f}[\\.\\s]*:\\s*(.+)`, 'i')
colonRe(f) == RegExp(<<Lit(f), Star(Cls("dotspace")), Lit(<<":">>), Star(Cls("space"))>>
                     \o valueGroup, 1, TRUE)

\* new RegExp(`\\[${f}\\]\\s+(.+)`, 'i')
bracketRe(f) == RegExp(<<Lit(<<"[">>), Lit(f), Lit(<<"]">>), Plus(Cls("space"))>>
                       \o valueGroup, 1, TRUE)

\* The loop of parseField trying the colon form of every label before the
\* bracketed form of any.
parseFieldColonsFirst(whoisText, fields, a, b) ==
    LET colons == {k \in a..b : match(whoisText, colonRe(fields[k])) # None}
        brackets == {k \in a..b : match(whoisText, bracketRe(fields[k])) # None}
    IN  IF colons # {}
        THEN Some(trim(Val(match(whoisText, colonRe(fields[Least(colons)])))[2]))
        ELSE IF brackets # {}
        THEN Some(trim(Val(match(whoisText, bracketRe(fields[Least(brackets)])))[2]))
        ELSE None

RECURSIVE parseFieldFrom(_, _, _, _)
\* The loop of parseField over fields[a..b]: what it returns there, or None to
\* go on.  The second half of the range is gone through only when the first
\* half returns nothing.
parseFieldFrom(whoisText, fields, a, b) ==
    IF a = b
    THEN With(match(whoisText, colonRe(fields[a])), LAMBDA colonMatch :
         IF colonMatch # None THEN Some(trim(Val(colonMatch)[2]))
         ELSE
         With(match(whoisText, bracketRe(fields[a])), LAMBDA bracketMatch :
         IF bracketMatch # None THEN Some(trim(Val(bracketMatch)[2]))
         ELSE None))
    ELSE With(parseFieldFrom(whoisText, fields, a, (a + b) \div 2), LAMBDA early :
         IF early # None THEN early
         ELSE parseFieldFrom(whoisText, fields, ((a + b) \div 2) + 1, b))

\* parseField(field, alternativeFields), fields being [field, ...alternativeFields]
parseField(whoisText, fields) == parseFieldFrom(whoisText, fields, 1, Len(fields))

\* secondPartTrimmed taking the part after the second colon: split(':')[2].
secondPartOffByOne(m) ==
    With(split(m, ":"), LAMBDA parts :
        IF Len(parts) < 3 THEN TypeError ELSE trim(parts[3]))

\* match.split(':')[1].trim(): a TypeError when the split has no second part
secondPartTrimmed(m) ==
    With(split(m, ":"), LAMBDA parts :
        IF Len(parts) < 2 THEN TypeError ELSE trim(parts[2]))

\* new RegExp(`${field}:\\s*(.+)`, 'ig')
multiRe(field) == RegExp(<<Lit(field), Lit(<<":">>), Star(Cls("space"))>> \o valueGroup,
                         1, TRUE)

parseMultipleFields(whoisText, field) ==
    With(matchAll(whoisText, multiRe(field)), LAMBDA matches :
        IF matches = None THEN <<>>
        ELSE [k \in 1..Len(Val(matches)) |-> secondPartTrimmed(Val(matches)[k])])

\* ([\s\S]*?)
lazyBlock == Group(1, <<StarLazy(Cls("any"))>>)

\* /Name servers:\s*([\s\S]*?)(?=\n\n|WHOIS lookup)/i
nameServersBlockRe ==
    RegExp(<<Lit(<<"N","a","m","e"," ","s","e","r","v","e","r","s",":">>), Star(Cls("space"))>> \o lazyBlock
           \o <<Ahead(<< <<Lit(<<"\n","\n">>)>>, <<Lit(<<"W","H","O","I","S"," ","l","o","o","k","u","p">>)>> >>)>>, 1, TRUE)

\* /Nameservers\s*\n([\s\S]*?)(?=\n\n|\n[A-Z])/i
nameserversBlockRe ==
    RegExp(<<Lit(<<"N","a","m","e","s","e","r","v","e","r","s">>), Star(Cls("space")), Lit(<<"\n">>)>> \o lazyBlock
           \o <<Ahead(<< <<Lit(<<"\n","\n">>)>>, <<Lit(<<"\n">>), Cls("upper")>> >>)>>, 1, TRUE)

multilinePatterns == <<nameServersBlockRe, nameserversBlockRe>>

\* .split('\n').map(line => line.trim())
trimmedLines(block) ==
    With(split(block, "\n"), LAMBDA lines : [k \in 1..Len(lines) |-> trim(lines[k])])

keepServerLine(line) == line # <<>> /\ ~startsWith(line, <<"W","H","O","I","S">>)

\* The servers of one block: the first word of every line kept.
blockServers(block) ==
    With(SelectSeq(trimmedLines(block), keepServerLine), LAMBDA kept :
        [k \in 1..Len(kept) |-> firstWord(kept[k])])

colonPatterns == <<<<"n","s","e","r","v","e","r">>, <<"N","s","e","r","v","e","r">>, <<"N","a","m","e"," ","S","e","r","v","e","r">>, <<"n","a","m","e","s","e","r","v","e","r","s">>,
                   <<"n","a","m","e","s","e","r","v","e","r">>, <<"H","o","s","t"," ","N","a","m","e">>>>

\* new RegExp(`${field}\\s*:\\s*(.+)`, 'ig')
nsColonRe(field) == RegExp(<<Lit(field), Star(Cls("space")), Lit(<<":">>),
                             Star(Cls("space"))>> \o valueGroup, 1, TRUE)

\* value.split(/\s+/)[0].replace(/\.$/, '') of the value after the first colon
colonServer(m) ==
    With(secondPartTrimmed(m), LAMBDA value :
        IF value = TypeError THEN TypeError ELSE removeTrailingDot(firstWord(value)))

\* /\[Name Server\]\s+(.+)/gi
jpNameServerRe == RegExp(<<Lit(<<"[","N","a","m","e"," ","S","e","r","v","e","r","]">>), Plus(Cls("space"))>> \o valueGroup,
                         1, TRUE)

\* match.replace(/\[Name Server\]/i, '').trim(), then its first word; the match
\* starts with the label.
bracketServer(m) == firstWord(trim(SubSeq(m, Len(<<"[","N","a","m","e"," ","S","e","r","v","e","r","]">>) + 1, Len(m))))

\* The loop over multilinePatterns stopping at the first header found, whatever
\* its block holds.
multilineFromFirstHeader(whoisText, k) ==
    With(match(whoisText, multilinePatterns[1]), LAMBDA first :
    IF first # None THEN Some(blockServers(Val(first)[2]))
    ELSE With(match(whoisText, multilinePatterns[2]), LAMBDA second :
         IF second # None THEN Some(blockServers(Val(second)[2])) ELSE None))

RECURSIVE multilineFrom(_, _)
RECURSIVE colonFrom(_, _, _)

\* The loop over multilinePatterns[k..]: the servers, or None to go on.
multilineFrom(whoisText, k) ==
    IF k > Len(multilinePatterns) THEN None
    ELSE
    With(match(whoisText, multilinePatterns[k]), LAMBDA found :
    With(IF found = None THEN <<>> ELSE blockServers(Val(found)[2]), LAMBDA servers :
    IF Len(servers) > 0 THEN Some(servers)
    ELSE multilineFrom(whoisText, k + 1)))

\* The loop over colonPatterns[a..b]: the servers, or None to go on.
colonFrom(whoisText, a, b) ==
    IF a = b
    THEN With(matchAll(whoisText, nsColonRe(colonPatterns[a])), LAMBDA matches :
         IF matches # None
         THEN Some([j \in 1..Len(Val(matches)) |-> colonServer(Val(matches)[j])])
         ELSE None)
    ELSE With(colonFrom(whoisText, a, (a + b) \div 2), LAMBDA early :
         IF early # None THEN early
         ELSE colonFrom(whoisText, ((a + b) \div 2) + 1, b))

parseNameservers(whoisText) ==
    With(multilineFrom(whoisText, 1), LAMBDA multi :
    IF multi # None THEN multi
    ELSE
    With(colonFrom(whoisText, 1, Len(colonPatterns)), LAMBDA colon :
    IF colon # None THEN colon
    ELSE
    With(matchAll(whoisText, jpNameServerRe), LAMBDA jpMatches :
    IF jpMatches # None
    THEN Some([j \in 1..Len(Val(jpMatches)) |-> bracketServer(Val(jpMatches)[j])])
    ELSE None)))

\* /Domain Status:\s*([\s\S]*?)(?=\n\n|Registrant:)/i
statusSectionRe ==
    RegExp(<<Lit(<<"D","o","m","a","i","n"," ","S","t","a","t","u","s",":">>), Star(Cls("space"))>> \o lazyBlock
           \o <<Ahead(<< <<Lit(<<"\n","\n">>)>>, <<Lit(<<"R","e","g","i","s","t","r","a","n","t",":">>)>> >>)>>, 1, TRUE)

isNotEmpty(line) == line # <<>>

\* a || b on arrays
orArray(a, b) == IF TruthyArray(a) THEN a ELSE b

parseStatus(whoisText) ==
    With(match(whoisText, statusSectionRe), LAMBDA statusSection :
    With(IF statusSection = None THEN <<>>
         ELSE SelectSeq(trimmedLines(Val(statusSection)[2]), isNotEmpty),
         LAMBDA statuses :
    IF Len(statuses) > 0 THEN Some(statuses)
    ELSE
    With(orArray(parseMultipleFields(whoisText, <<"D","o","m","a","i","n"," ","S","t","a","t","u","s">>),
                 orArray(parseMultipleFields(whoisText, <<"S","t","a","t","u","s">>),
                         parseMultipleFields(whoisText, <<"s","t","a","t","e">>))),
         LAMBDA singleLineMatch :
    IF Len(singleLineMatch) > 0 THEN Some(singleLineMatch)
    ELSE None)))

\* label, gap, (.+)
restOfLine(label, gap) == <<Lit(label), gap>> \o valueGroup

\* (\d+(?:st|nd|rd|th) \w+ \d{4})
ordinalDate == Group(1, <<Plus(Cls("digit")), ordinalSuffix, Lit(<<" ">>),
                          Plus(Cls("word")), Lit(<<" ">>), Times(Cls("digit"), 4)>>)

\* (\d+(?:st|nd|rd|th) \w+ each year)
recurringDate == Group(1, <<Plus(Cls("digit")), ordinalSuffix, Lit(<<" ">>),
                            Plus(Cls("word")), Lit(<<" ","e","a","c","h"," ","y","e","a","r">>)>>)

creationPatterns == <<
    RegExp(<<Lit(<<"R","e","g","i","s","t","e","r","e","d"," ","o","n"," ">>)>> \o ordinalDate, 1, TRUE),
    RegExp(restOfLine(<<"c","r","e","a","t","e","d",":">>, Star(Cls("space"))), 1, TRUE),
    RegExp(restOfLine(<<"C","r","e","a","t","e","d",":">>, Star(Cls("space"))), 1, TRUE),
    RegExp(restOfLine(<<"C","r","e","a","t","i","o","n"," ","D","a","t","e",":">>, Star(Cls("space"))), 1, TRUE),
    RegExp(restOfLine(<<"C","r","e","a","t","e","d"," ","O","n",":">>, Star(Cls("space"))), 1, TRUE),
    RegExp(<<Lit(<<"R","e","g","i","s","t","e","r","e","d"," ","D","a","t","e">>), Star(Cls("space")), Lit(<<":">>),
             Star(Cls("space"))>> \o valueGroup, 1, TRUE),
    RegExp(restOfLine(<<"[","U+767B","U+9332","U+5E74","U+6708","U+65E5","]">>, Plus(Cls("space"))),
           1, FALSE) >>

expiryPatterns == <<
    RegExp(<<Lit(<<"R","e","g","i","s","t","r","y"," ","f","e","e"," ","d","u","e"," ","o","n"," ">>)>> \o recurringDate, 1, TRUE),
    RegExp(restOfLine(<<"p","a","i","d","-","t","i","l","l",":">>, Star(Cls("space"))), 1, TRUE),
    RegExp(restOfLine(<<"E","x","p","i","r","e"," ","D","a","t","e",":">>, Star(Cls("space"))), 1, TRUE),
    RegExp(restOfLine(<<"R","e","g","i","s","t","r","y"," ","E","x","p","i","r","y"," ","D","a","t","e",":">>, Star(Cls("space"))), 1, TRUE),
    RegExp(<<Lit(<<"E","x","p","i","r","a","t","i","o","n"," ","D","a","t","e">>), Star(Cls("space")), Lit(<<":">>),
             Star(Cls("space"))>> \o valueGroup, 1, TRUE),
    RegExp(restOfLine(<<"r","e","n","e","w","a","l"," ","d","a","t","e",":">>, Star(Cls("space"))), 1, TRUE),
    RegExp(restOfLine(<<"E","x","p","i","r","e","s"," ","O","n",":">>, Star(Cls("space"))), 1, TRUE),
    RegExp(restOfLine(<<"[","U+6709","U+52B9","U+671F","U+9650","]">>, Plus(Cls("space"))),
           1, FALSE) >>

\* The loop over patterns[a..b] taking the match that starts first in the text
\* instead of the match of the first pattern.
parseDateFromByPosition(whoisText, patterns, a, b) ==
    LET hits == {k \in a..b : ExecFrom(patterns[k], whoisText, 1) # None}
        startOf(k) == Val(ExecFrom(patterns[k], whoisText, 1)).b
    IN  IF hits = {} THEN None
        ELSE match(whoisText,
                   patterns[CHOOSE k \in hits : \A j \in hits : startOf(k) <= startOf(j)])

RECURSIVE parseDateFrom(_, _, _, _)
\* The loop of parseCreationDate and of parseExpiryDate over patterns[a..b]:
\* the first match there is, or None.
parseDateFrom(whoisText, patterns, a, b) ==
    IF a = b THEN match(whoisText, patterns[a])
    ELSE With(parseDateFrom(whoisText, patterns, a, (a + b) \div 2), LAMBDA early :
         IF early # None THEN early
         ELSE parseDateFrom(whoisText, patterns, ((a + b) \div 2) + 1, b))

\* return normalizeDateString(match[1].trim()) at the first match, null after
\* the loop
parseDate(whoisText, patterns, thisYear) ==
    With(parseDateFrom(whoisText, patterns, 1, Len(patterns)), LAMBDA found :
        IF found # None THEN normalizeDateString(Some(trim(Val(found)[2])), thisYear)
        ELSE None)

parseCreationDate(whoisText, thisYear) == parseDate(whoisText, creationPatterns, thisYear)

parseExpiryDate(whoisText, thisYear) == parseDate(whoisText, expiryPatterns, thisYear)

domainFields == <<<<"D","o","m","a","i","n">>, <<"D","o","m","a","i","n"," ","N","a","m","e">>, <<"d","o","m","a","i","n"," ","n","a","m","e">>, <<"d","o","m","a","i","n">>>>
registrarFields == <<<<"R","e","g","i","s","t","r","a","r">>, <<"R","E","G","I","S","T","R","A","R">>, <<"r","e","g","i","s","t","r","a","r">>>>
registrantFields == <<<<"R","e","g","i","s","t","r","a","n","t">>, <<"r","e","g","i","s","t","r","a","n","t"," ","n","a","m","e">>, <<"o","r","g">>, <<"O","r","g","a","n","i","z","a","t","i","o","n">>>>
dnssecFields == <<<<"D","N","S","S","E","C">>, <<"S","i","g","n","e","d">>, <<"d","n","s","s","e","c">>>>
lastModifiedFields == <<<<"L","a","s","t"," ","M","o","d","i","f","i","e","d">>, <<"l","a","s","t"," ","m","o","d","i","f","i","e","d">>, <<"L","a","s","t"," ","U","p","d","a","t","e">>, <<"C","h","a","n","g","e","d">>,
                        <<"c","h","a","n","g","e","d">>>>

\* parsedDomain || domainName
domainOrFallback(parsedDomain, domainName) ==
    With(parsedDomain, LAMBDA parsedName :
        IF TruthyString(parsedName) THEN parsedName ELSE domainName)

\* What a call that raises gives instead of a record.
Raised == [raised |-> TRUE]

\* Whether building a list field ran into a TypeError.
threw(list) == IsSome(list) /\ \E k \in 1..Len(Val(list)) : Val(list)[k] = TypeError

\* parseWhoisData(whoisText, domainName): the record, or Raised when a strategy
\* raises.
parseWhoisData(whoisText, domainName, thisYear) ==
    With([domainName     |-> domainOrFallback(parseField(whoisText, domainFields),
                                              domainName),
          registrar      |-> parseField(whoisText, registrarFields),
          creationDate   |-> parseCreationDate(whoisText, thisYear),
          expirationDate |-> parseExpiryDate(whoisText, thisYear),
          nameservers    |-> parseNameservers(whoisText),
          registrant     |-> parseField(whoisText, registrantFields),
          status         |-> parseStatus(whoisText),
          dnssec         |-> parseField(whoisText, dnssecFields),
          lastModified   |-> parseField(whoisText, lastModifiedFields)], LAMBDA record :
        IF threw(record.nameservers) \/ threw(record.status) THEN Raised ELSE record)

(***************************************************************************)
(* whoisQuery.  Time is counted in milliseconds and moves in steps of      *)
(* one second; the timeouts tried are whole seconds.                       *)
(***************************************************************************)
\* The 1000 of timeout / 1000
MsPerSecond == 1000
MaxTime == 6000
MaxChunks == 3

Domains == {<<"a",".","a","c">>, <<"b",".","g","g">>}
Servers == {<<"w","h","o","i","s",".","x">>}
Timeouts == {2000, 3000}
\* err.message of the transport's errors
Causes == {<<"E","C","O","N","N","R","E","F","U","S","E","D">>, <<"E","N","O","T","F","O","U","N","D">>}

\* The chunks a peer may send, as bytes: "a", " ", the two bytes of U+00E9,
\* and each of these two bytes alone (a character cut by the chunking).
Chunks == {<<97>>, <<32>>, <<195, 169>>, <<195>>, <<169>>}

\* The code points the bytes above can give.
Chr(n) == CASE n = 10 -> "\n" [] n = 32 -> " " [] n = 97 -> "a"
            [] n = 233 -> "U+00E9" [] OTHER -> "U+FFFD"

RECURSIVE utf8Decode(_)
\* Buffer.prototype.toString('utf8') for one-byte and two-byte sequences: a byte
\* that starts or continues no complete sequence becomes U+FFFD.
utf8Decode(bytes) ==
    IF bytes = <<>> THEN <<>>
    ELSE LET b == Head(bytes)
         IN  IF b < 128 THEN <<Chr(b)>> \o utf8Decode(Tail(bytes))
             ELSE IF /\ b >= 194 /\ b <= 223 /\ Len(bytes) >= 2
                     /\ bytes[2] >= 128 /\ bytes[2] <= 191
             THEN <<Chr((b - 192) * 64 + (bytes[2] - 128))>>
                  \o utf8Decode(Tail(Tail(bytes)))
             ELSE <<"U+FFFD">> \o utf8Decode(Tail(bytes))

\* chunk.toString()
toString(chunk) == utf8Decode(chunk)

CRLF == <<"\r","\n">>

\* `${domain}\r\n`
request(d) == d \o CRLF

\* `WHOIS server ${server} returned no data`
noDataMessage(srv) == <<"W","H","O","I","S"," ","s","e","r","v","e","r"," ">> \o srv \o <<" ","r","e","t","u","r","n","e","d"," ","n","o"," ","d","a","t","a">>

\* `WHOIS server ${server} error: ${err.message}`
errorMessage(srv, cause) == <<"W","H","O","I","S"," ","s","e","r","v","e","r"," ">> \o srv \o <<" ","e","r","r","o","r",":"," ">> \o cause

\* `WHOIS server ${server} timed out after ${timeout / 1000} seconds`
timeoutMessage(srv, ms) ==
    <<"W","H","O","I","S"," ","s","e","r","v","e","r"," ">> \o srv \o <<" ","t","i","m","e","d"," ","o","u","t"," ","a","f","t","e","r"," ">> \o IntToStr(ms \div MsPerSecond) \o <<" ","s","e","c","o","n","d","s">>

Pending == [state |-> "pending"]
Fulfilled(v) == [state |-> "fulfilled", value |-> v]
Rejected(m) == [state |-> "rejected", message |-> m]

\* resolve and reject settle a pending promise and leave a settled one alone.
resolve(p, v) == IF p.state = "pending" THEN Fulfilled(v) ELSE p
\* reject settling the promise again.
rejectSettled(p, m) == Rejected(m)
reject(p, m) == IF p.state = "pending" THEN Rejected(m) ELSE p

\* !data || data.trim().length === 0
isEmptyResponse(d) == d = <<>> \/ Len(trim(d)) = 0

\* The idle timer socket.setTimeout started runs until the socket is destroyed; its
\* listener is there once.
timerRuns == sock # "destroyed" /\ "timeout" \notin Range(events)
deadline == idleSince + timeout

TransportInit ==
    /\ domain \in Domains /\ server \in Servers /\ timeout \in Timeouts
    /\ sock = "connecting"
    /\ connections = 1
    /\ written = <<>>
    /\ data = <<>>
    /\ promise = Pending
    /\ now = 0 /\ idleSince = 0
    /\ received = <<>> /\ events = <<>>

\* onConnect ending the request with a bare line feed.
onConnectBareLineFeed == written' = Append(written, domain \o <<"\n">>)

\* socket.on('connect'): the request is written.
onConnect == written' = Append(written, request(domain))

\* socket.on('data')
onData(chunk) == data' = data \o toString(chunk)

\* socket.on('end')
onEnd ==
    promise' = IF isEmptyResponse(data) THEN reject(promise, noDataMessage(server))
               ELSE resolve(promise, data)

\* socket.on('error')
onError(cause) == promise' = reject(promise, errorMessage(server, cause))

\* onTimeout without socket.destroy().
onTimeoutLeavingSocket ==
    /\ sock' = sock
    /\ promise' = reject(promise, timeoutMessage(server, timeout))

\* The callback of socket.setTimeout: socket.destroy(), then reject.
onTimeout ==
    /\ sock' = "destroyed"
    /\ promise' = reject(promise, timeoutMessage(server, timeout))

\* The connection is made: 'connect' is emitted and the idle timer restarts (the
\* connect itself and the write are activity).
Connect ==
    /\ sock = "connecting"
    /\ sock' = "open"
    /\ onConnect
    /\ idleSince' = now
    /\ events' = Append(events, "connect")
    /\ UNCHANGED <<domain, server, timeout, connections, data, promise, now, received>>

\* A chunk arrives: 'data' is emitted and the idle timer restarts.
Data(chunk) ==
    /\ sock = "open"
    /\ Len(received) < MaxChunks
    /\ onData(chunk)
    /\ received' = Append(received, chunk)
    /\ idleSince' = now
    /\ events' = Append(events, "data")
    /\ UNCHANGED <<domain, server, timeout, sock, connections, written, promise, now>>

\* The peer closes: 'end' is emitted, and the socket (allowHalfOpen is off) closes
\* its own side.
End ==
    /\ sock = "open"
    /\ sock' = "ended"
    /\ onEnd
    /\ events' = Append(events, "end")
    /\ UNCHANGED <<domain, server, timeout, connections, written, data, now, idleSince,
                   received>>

\* The transport raises (refused, unresolved, reset): 'error' is emitted and the
\* socket is destroyed.
Error(cause) ==
    /\ sock \in {"connecting", "open", "ended"}
    /\ sock' = "destroyed"
    /\ onError(cause)
    /\ events' = Append(events, "error")
    /\ UNCHANGED <<domain, server, timeout, connections, written, data, now, idleSince,
                   received>>

\* The socket was idle for timeout milliseconds: 'timeout' is emitted.
Timeout ==
    /\ timerRuns
    /\ now >= deadline
    /\ onTimeout
    /\ events' = Append(events, "timeout")
    /\ UNCHANGED <<domain, server, timeout, connections, written, data, now, idleSince,
                   received>>

\* The socket that read the peer's FIN finishes closing.
Close ==
    /\ sock = "ended"
    /\ sock' = "destroyed"
    /\ UNCHANGED <<domain, server, timeout, connections, written, data, promise, now,
                   idleSince, received, events>>

\* Time passes; a timer that is due fires before more time passes.
Tick ==
    /\ now < MaxTime
    /\ timerRuns => now < deadline
    /\ now' = now + MsPerSecond
    /\ UNCHANGED <<domain, server, timeout, sock, connections, written, data, promise,
                   idleSince, received, events>>

ParseIdle ==
    /\ rawText = <<>> /\ fallbackDomain = None /\ clockYear = 0 /\ pieces = 0
    /\ parsed = None /\ reparsed = None /\ laterYear = 0 /\ parsedCRLF = None
DateIdle == dateInput = None /\ dateShape = "none" /\ normalized = None
TransportIdle ==
    /\ domain = <<>> /\ server = <<>> /\ timeout = 0 /\ sock = "destroyed"
    /\ connections = 0 /\ written = <<>> /\ data = <<>> /\ promise = Pending
    /\ now = 0 /\ idleSince = 0 /\ received = <<>> /\ events = <<>>
    /\ call = 0 /\ other = None

Init == TransportInit /\ call = 1 /\ other = None /\ ParseIdle /\ DateIdle

Next ==
    \/ Connect /\ UNCHANGED <<parseVars, dateVars, call, other>>
    \/ (\E chunk \in Chunks : Data(chunk)) /\ UNCHANGED <<parseVars, dateVars, call, other>>
    \/ End /\ UNCHANGED <<parseVars, dateVars, call, other>>
    \/ (\E cause \in Causes : Error(cause)) /\ UNCHANGED <<parseVars, dateVars, call, other>>
    \/ Timeout /\ UNCHANGED <<parseVars, dateVars, call, other>>
    \/ Close /\ UNCHANGED <<parseVars, dateVars, call, other>>
    \/ Tick /\ UNCHANGED <<parseVars, dateVars, call, other>>

Spec == Init /\ [][Next]_vars

(***************************************************************************)
(* Two calls of whoisQuery at the same time.  Each call has its own        *)
(* closure: its parameters, its socket with the idle timer and the         *)
(* listeners, its data and its promise.  The event loop delivers the       *)
(* events of both sockets in any order; the clock is the one clock.        *)
(***************************************************************************)
\* The closure of the call at hand.
closure ==
    [domain |-> domain, server |-> server, timeout |-> timeout, sock |-> sock,
     connections |-> connections, written |-> written, data |-> data,
     promise |-> promise, idleSince |-> idleSince, received |-> received,
     events |-> events]

\* The closure of a call whoisQuery(d, srv, ms) that has just been made.
newClosure(d, srv, ms) ==
    [domain |-> d, server |-> srv, timeout |-> ms, sock |-> "connecting",
     connections |-> 1, written |-> <<>>, data |-> <<>>, promise |-> Pending,
     idleSince |-> 0, received |-> <<>>, events |-> <<>>]

\* What the peer of each call sends, chunk by chunk.
CallChunks == << {<<97>>}, {<<195, 169>>} >>

\* The two calls are made one after the other in the same turn, for different
\* domains and with different timeouts, the first with the shorter one.
TwoCallsInit ==
    /\ TransportInit
    /\ domain = <<"a",".","a","c">> /\ timeout = Least(Timeouts)
    /\ call = 1
    /\ other \in {Some(newClosure(d, srv, ms)) :
                     d \in Domains \ {domain}, srv \in Servers, ms \in Timeouts \ {timeout}}
    /\ ParseIdle /\ DateIdle

\* Dispatch with the data kept in one variable for both calls.
DispatchSharingData ==
    /\ other # None
    /\ call' = 3 - call
    /\ other' = Some(closure)
    /\ domain' = Val(other).domain /\ server' = Val(other).server
    /\ timeout' = Val(other).timeout /\ sock' = Val(other).sock
    /\ connections' = Val(other).connections /\ written' = Val(other).written
    /\ data' = data /\ promise' = Val(other).promise
    /\ idleSince' = Val(other).idleSince /\ received' = Val(other).received
    /\ events' = Val(other).events
    /\ UNCHANGED now

\* The event loop turns to the socket of the other call: the listeners that run
\* next are those of that call, with its closure.
Dispatch ==
    /\ other # None
    /\ call' = 3 - call
    /\ other' = Some(closure)
    /\ domain' = Val(other).domain /\ server' = Val(other).server
    /\ timeout' = Val(other).timeout /\ sock' = Val(other).sock
    /\ connections' = Val(other).connections /\ written' = Val(other).written
    /\ data' = Val(other).data /\ promise' = Val(other).promise
    /\ idleSince' = Val(other).idleSince /\ received' = Val(other).received
    /\ events' = Val(other).events
    /\ UNCHANGED now

\* The idle timer of the other call is not due.
otherTimerNotDue ==
    (Val(other).sock # "destroyed" /\ "timeout" \notin Range(Val(other).events))
        => now < Val(other).idleSince + Val(other).timeout

SpecTwoNext ==
    \/ Connect /\ UNCHANGED <<parseVars, dateVars, call, other>>
    \/ (\E chunk \in CallChunks[call] : Data(chunk))
          /\ UNCHANGED <<parseVars, dateVars, call, other>>
    \/ End /\ UNCHANGED <<parseVars, dateVars, call, other>>
    \/ (\E cause \in Causes : Error(cause)) /\ UNCHANGED <<parseVars, dateVars, call, other>>
    \/ Timeout /\ UNCHANGED <<parseVars, dateVars, call, other>>
    \/ Close /\ UNCHANGED <<parseVars, dateVars, call, other>>
    \/ Tick /\ otherTimerNotDue /\ UNCHANGED <<parseVars, dateVars, call, other>>
    \/ Dispatch /\ UNCHANGED <<parseVars, dateVars>>

SpecTwo == TwoCallsInit /\ [][SpecTwoNext]_vars

(***************************************************************************)
(* Calls of parseWhoisData: the text is put together from pieces of WHOIS  *)
(* responses, then parsed.                                                 *)
(***************************************************************************)
MaxPieces == 2

Pieces == {
    <<"D","o","m","a","i","n"," ","N","a","m","e",":"," ","n",".","m","\n">>,
    <<"[","d","o","m","a","i","n","]"," ","b",".","j","p","\n">>,
    <<"D","o","m","a","i","n",":"," ">>,
    <<"R","e","g","i","s","t","r","a","r",":"," ">>,
    <<"c","r","e","a","t","e","d",":"," ","2","0","0","5","/","0","5","/","3","0","\n">>,
    <<"D","o","m","a","i","n"," ","S","t","a","t","u","s",":"," ","o","k","\n">>,
    <<"n","s","e","r","v","e","r",":"," ","n",".","s","."," ","1",".","2","\n">>,
    <<"o","r","g",":"," ","O","\n","D","N","S","S","E","C",":"," ","n","\n">> }

Fallbacks == {None, Some(<<"f",".","a","c">>), Some(<<>>)}
Years == {2026}

ParseInit ==
    /\ rawText = <<>>
    /\ fallbackDomain \in Fallbacks
    /\ clockYear \in Years
    /\ pieces = 0
    /\ parsed = None
    /\ reparsed = None
    /\ laterYear = 0
    /\ parsedCRLF = None

\* One more piece of the response text.
AddPiece(p) ==
    /\ parsed = None
    /\ pieces < MaxPieces
    /\ rawText' = rawText \o p
    /\ pieces' = pieces + 1
    /\ UNCHANGED <<fallbackDomain, clockYear, parsed, reparsed, laterYear, parsedCRLF>>

\* The call parseWhoisData(rawText, fallbackDomain).
Parse ==
    /\ parsed = None
    /\ parsed' = Some(parseWhoisData(rawText, fallbackDomain, clockYear))
    /\ UNCHANGED <<rawText, fallbackDomain, clockYear, pieces, reparsed, laterYear,
                   parsedCRLF>>

SpecParseInit == ParseInit /\ TransportIdle /\ DateIdle

SpecParseNext ==
    \/ (\E p \in Pieces : AddPiece(p)) /\ UNCHANGED <<transportVars, dateVars>>
    \/ Parse /\ UNCHANGED <<transportVars, dateVars>>

SpecParse == SpecParseInit /\ [][SpecParseNext]_vars

(***************************************************************************)
(* Two calls of parseWhoisData with the same arguments: the second is made *)
(* later, in the same year or after the turn of the year.                  *)
(***************************************************************************)
RecurringPieces == {
    <<"R","e","g","i","s","t","r","y"," ","f","e","e"," ","d","u","e"," ","o","n"," ","3","0","t","h"," ","A","p","r","i","l"," ","e","a","c","h"," ","y","e","a","r","\n">>,
    <<"R","e","g","i","s","t","e","r","e","d"," ","o","n"," ","3","0","t","h"," ","A","p","r","i","l"," ","2","0","0","3","\n">>,
    <<"c","r","e","a","t","e","d",":"," ","1","s","t"," ","M","a","y"," ","e","a","c","h"," ","y","e","a","r","\n">>,
    <<"N","a","m","e"," ","s","e","r","v","e","r","s",":","\n"," ","n",".","s","\n"," ","m",".","s","\n","\n">>,
    <<"S","t","a","t","u","s",":"," ","o","k","\n">> }

\* Reparse with the clock read one year off.
ReparseNextYear(y) ==
    /\ parsed # None
    /\ reparsed = None
    /\ reparsed' = Some(parseWhoisData(rawText, fallbackDomain, y + 1))
    /\ laterYear' = y
    /\ UNCHANGED <<rawText, fallbackDomain, clockYear, pieces, parsed, parsedCRLF>>

\* The later call parseWhoisData(rawText, fallbackDomain), made in the year y.
Reparse(y) ==
    /\ parsed # None
    /\ reparsed = None
    /\ reparsed' = Some(parseWhoisData(rawText, fallbackDomain, y))
    /\ laterYear' = y
    /\ UNCHANGED <<rawText, fallbackDomain, clockYear, pieces, parsed, parsedCRLF>>

SpecReparseNext ==
    \/ (\E p \in RecurringPieces : AddPiece(p)) /\ UNCHANGED <<transportVars, dateVars>>
    \/ Parse /\ UNCHANGED <<transportVars, dateVars>>
    \/ (\E y \in {clockYear, clockYear + 1} : Reparse(y))
          /\ UNCHANGED <<transportVars, dateVars>>

SpecReparse == SpecParseInit /\ [][SpecReparseNext]_vars

(***************************************************************************)
(* Calls of parseWhoisData on texts with name server sections of the four  *)
(* forms.                                                                  *)
(***************************************************************************)
NameserverPieces == {
    <<"N","a","m","e"," ","s","e","r","v","e","r","s",":","\n"," ","n",".","s","\n"," ","m",".","s","\n","\n">>,
    <<"N","a","m","e"," ","s","e","r","v","e","r","s",":","\n","\n">>,
    <<"N","a","m","e","s","e","r","v","e","r","s","\n"," ","a",".","b","\n","c",".","d","\n"," ","e",".","f","\n","\n">>,
    <<"n","s","e","r","v","e","r",":"," ","n",".","s","."," ","1",".","2","\n">>,
    <<"[","N","a","m","e"," ","S","e","r","v","e","r","]"," ","j",".","p","."," ","1",".","2","\n">>,
    <<"N","s","e","r","v","e","r",":"," ","\n">> }

SpecNameserversNext ==
    \/ (\E p \in NameserverPieces : AddPiece(p)) /\ UNCHANGED <<transportVars, dateVars>>
    \/ Parse /\ UNCHANGED <<transportVars, dateVars>>

SpecNameservers == SpecParseInit /\ [][SpecNameserversNext]_vars

(***************************************************************************)
(* Calls of parseWhoisData on texts of label lines: status lines under the *)
(* three labels, a value with a colon, a label with nothing after its      *)
(* colon, labels of one field in both forms, and a dotted label.           *)
(***************************************************************************)
LinePieces == {
    <<"S","t","a","t","u","s",":"," ","o","k","\n">>,
    <<"D","o","m","a","i","n"," ","S","t","a","t","u","s",":"," ","a",":","b","\n">>,
    <<"R","e","g","i","s","t","r","a","r",":","\n">>,
    <<"o","r","g",":"," ","O","\n">>,
    <<"[","R","e","g","i","s","t","r","a","n","t","]"," ","R","\n">>,
    <<"d","n","s","s","e","c",".",".",".",":"," ","d","\n">> }

SpecLinesNext ==
    \/ (\E p \in LinePieces : AddPiece(p)) /\ UNCHANGED <<transportVars, dateVars>>
    \/ Parse /\ UNCHANGED <<transportVars, dateVars>>

SpecLines == SpecParseInit /\ [][SpecLinesNext]_vars

(***************************************************************************)
(* Calls of parseWhoisData on texts of date lines: lines of several        *)
(* patterns of both lists, with values of a known shape, of no known       *)
(* shape, and with nothing after the colon.                                *)
(***************************************************************************)
DatePieces == {
    <<"R","e","g","i","s","t","e","r","e","d"," ","o","n"," ","3","0","t","h"," ","A","p","r","i","l"," ","2","0","0","3","\n">>,
    <<"c","r","e","a","t","e","d",":"," ","2","0","0","5","/","0","5","/","3","0","\n">>,
    <<"C","r","e","a","t","i","o","n"," ","D","a","t","e",":"," ","b","e","f","o","r","e"," ","A","u","g","-","1","9","9","6","\n">>,
    <<"R","e","g","i","s","t","r","y"," ","f","e","e"," ","d","u","e"," ","o","n"," ","3","0","t","h"," ","A","p","r","i","l"," ","e","a","c","h"," ","y","e","a","r","\n">>,
    <<"p","a","i","d","-","t","i","l","l",":"," ","2","0","2","6","-","0","1","-","0","1","T","0","0",":","0","0",":","0","0","Z","\n">>,
    <<"E","x","p","i","r","e"," ","D","a","t","e",":"," ","\n">> }

SpecDatesNext ==
    \/ (\E p \in DatePieces : AddPiece(p)) /\ UNCHANGED <<transportVars, dateVars>>
    \/ Parse /\ UNCHANGED <<transportVars, dateVars>>

SpecDates == SpecParseInit /\ [][SpecDatesNext]_vars

(***************************************************************************)
(* Calls of parseWhoisData on a text with LF line ends and on the same     *)
(* text with CRLF line ends: the three block forms, each closed by an      *)
(* empty line, among label lines.                                          *)
(***************************************************************************)
TerminatorPieces == {
    <<"N","a","m","e"," ","s","e","r","v","e","r","s",":","\n"," ","n",".","s","\n"," ","m",".","s","\n","\n">>,
    <<"N","a","m","e","s","e","r","v","e","r","s","\n"," ","a",".","b","\n","\n">>,
    <<"D","o","m","a","i","n"," ","S","t","a","t","u","s",":","\n"," ","A","c","t","i","v","e","\n"," ","L","o","c","k","e","d","\n","\n">>,
    <<"R","e","g","i","s","t","r","a","r",":"," ","R","\n">>,
    <<"n","s","e","r","v","e","r",":"," ","n",".","s","\n">>,
    <<"S","t","a","t","u","s",":"," ","o","k","\n">> }

RECURSIVE withCRLF(_)
\* The text with every LF replaced by CRLF.
withCRLF(s) ==
    IF Len(s) = 0 THEN <<>>
    ELSE IF Len(s) = 1 THEN (IF s[1] = "\n" THEN CRLF ELSE s)
    ELSE withCRLF(SubSeq(s, 1, Len(s) \div 2))
         \o withCRLF(SubSeq(s, Len(s) \div 2 + 1, Len(s)))

\* The call parseWhoisData(whoisText, fallbackDomain) on the text as a server that
\* ends its lines with CRLF sends it.
ParseCRLF ==
    /\ parsed # None
    /\ parsedCRLF = None
    /\ parsedCRLF' = Some(parseWhoisData(withCRLF(rawText), fallbackDomain, clockYear))
    /\ UNCHANGED <<rawText, fallbackDomain, clockYear, pieces, parsed, reparsed, laterYear>>

SpecTerminatorsNext ==
    \/ (\E p \in TerminatorPieces : AddPiece(p)) /\ UNCHANGED <<transportVars, dateVars>>
    \/ Parse /\ UNCHANGED <<transportVars, dateVars>>
    \/ ParseCRLF /\ UNCHANGED <<transportVars, dateVars>>

SpecTerminators == SpecParseInit /\ [][SpecTerminatorsNext]_vars

(***************************************************************************)
(* Calls of normalizeDateString: the input is written from a shape (an     *)
(* ordinal date, a recurring date, a date with slashes, a date with dots,  *)
(* any other text, or null), then normalised.                              *)
(***************************************************************************)
MaxDayDigits == 3

DayDigits == {"0", "1", "3"}

RECURSIVE DigitStrings(_)
DigitStrings(n) ==
    IF n = 0 THEN {<<>>} ELSE {<<d>> \o t : d \in DayDigits, t \in DigitStrings(n - 1)}

DayTexts == UNION {DigitStrings(n) : n \in 1..MaxDayDigits}
Suffixes == {<<"s","t">>, <<"t","h">>}
Gaps == {<<" ">>, <<" "," ">>}
MonthWords == {<<"A","p","r","i","l">>, <<"M","A","Y">>, <<"d","e","c","e","m","b","e","r">>, <<"F","o","o">>, <<"c","o","n","s","t","r","u","c","t","o","r">>, <<"_","_","p","r","o","t","o","_","_">>}
OtherTexts == {<<"2","0","0","5","-","0","2","-","1","4","T","2","0",":","3","5",":","1","4","Z">>, <<"b","e","f","o","r","e"," ","A","u","g","-","1","9","9","6">>, <<"2","0","-","M","a","y","-","2","0","0","5">>,
               <<"2","0","0","5","/","5","/","3","0">>, <<"2","0","0","7",".","0","3">>, <<>>}

Shape(kind, day, glue, gap, month, year, dot, raw) ==
    [kind |-> kind, day |-> day, glue |-> glue, gap |-> gap, month |-> month,
     year |-> year, dot |-> dot, raw |-> raw]

Shapes ==
    {Shape(k, d, x, g, w, <<"2","0","0","3">>, FALSE, <<>>) :
        k \in {"ordinal", "recurring"}, d \in DayTexts, x \in Suffixes, g \in Gaps,
        w \in MonthWords}
    \cup {Shape("slash", d, <<>>, <<>>, m, y, FALSE, <<>>) :
            d \in {<<"3","0">>, <<"0","3">>}, m \in {<<"0","5">>, <<"1","2">>}, y \in {<<"2","0","0","5">>, <<"1","9","9","9">>}}
    \cup {Shape("dotted", <<"0","2">>, <<>>, g, <<"0","3">>, <<"2","0","0","7">>, dot, <<>>) :
            g \in {<<>>, <<" ">>, <<" "," ">>}, dot \in BOOLEAN}
    \cup {Shape("other", <<>>, <<>>, <<>>, <<>>, <<>>, FALSE, t) : t \in OtherTexts}
    \cup {Shape("null", <<>>, <<>>, <<>>, <<>>, <<>>, FALSE, <<>>)}

\* The text of a shape.
Text(sh) ==
    CASE sh.kind = "ordinal" ->
            sh.day \o sh.glue \o sh.gap \o sh.month \o sh.gap \o sh.year
      [] sh.kind = "recurring" ->
            sh.day \o sh.glue \o sh.gap \o sh.month \o sh.gap \o <<"e","a","c","h"," ","y","e","a","r">>
      [] sh.kind = "slash" -> sh.year \o <<"/">> \o sh.month \o <<"/">> \o sh.day
      [] sh.kind = "dotted" ->
            sh.year \o <<".">> \o sh.gap \o sh.month \o <<".">> \o sh.gap \o sh.day
            \o (IF sh.dot THEN <<".">> ELSE <<>>)
      [] OTHER -> sh.raw

DateInit ==
    /\ dateShape \in Shapes
    /\ dateInput = IF dateShape.kind = "null" THEN None ELSE Some(Text(dateShape))
    /\ normalized = None

\* The call normalizeDateString(dateInput).
Normalize ==
    /\ normalized = None
    /\ normalized' = Some(normalizeDateString(dateInput, clockYear))
    /\ UNCHANGED <<dateInput, dateShape>>

SpecDateInit ==
    /\ DateInit
    /\ TransportIdle
    /\ rawText = <<>> /\ fallbackDomain = None /\ clockYear \in Years
    /\ pieces = 0 /\ parsed = None /\ reparsed = None /\ laterYear = 0
    /\ parsedCRLF = None

SpecDateNext == Normalize /\ UNCHANGED <<transportVars, parseVars>>

SpecDate == SpecDateInit /\ [][SpecDateNext]_vars

(***************************************************************************)
(* Properties of whoisQuery (under Spec)                                   *)
(***************************************************************************)
\* Whether text s holds text sub.
Contains(s, sub) ==
    \E i \in 1..(Len(s) - Len(sub) + 1) : SubSeq(s, i, i + Len(sub) - 1) = sub

RECURSIVE Flatten(_)
\* The bytes of a list of chunks, in order.
Flatten(chunks) == IF chunks = <<>> THEN <<>> ELSE Head(chunks) \o Flatten(Tail(chunks))

\* The text of the bytes the peer sent.
wireText == utf8Decode(Flatten(received))

IsBlank(s) == \A k \in 1..Len(s) : s[k] \in WhiteSpace

TimedOut == promise = Rejected(timeoutMessage(server, timeout))

\* C1, as claimed (and with a margin for "about"): once twice the timeout has
\* passed since the call and the peer has not closed (only connect and data
\* events came), the promise is rejected with the Timeout error.
C1_TimeoutWithinBound ==
    (now >= 2 * timeout /\ Range(events) \subseteq {"connect", "data", "timeout"})
        => TimedOut

\* C2: in every state in which the promise is rejected with the Timeout error the
\* socket is destroyed.
C2_TimeoutLeavesNoSocket == TimedOut => sock = "destroyed"

\* C2, witness: the timeout fired on a connection that was made and had received
\* data, and the promise is rejected with Timeout.
C2_TimedOutAfterData ==
    /\ TimedOut
    /\ events[Len(events)] = "timeout"
    /\ "data" \in Range(events)

\* C3, as claimed: after 'end' the promise is rejected with EmptyResponse if the
\* text the peer sent is empty or white space only, and otherwise resolved with
\* exactly the text of all chunks received, in order.
C3_ResolvesWithReceivedText ==
    "end" \in Range(events) =>
        promise = IF IsBlank(wireText) THEN Rejected(noDataMessage(server))
                  ELSE Fulfilled(wireText)

\* C4, as claimed: every rejection's message holds the server and the domain,
\* and the message of a rejection by 'error' holds the transport's cause too.
C4_ErrorsCarryServerAndDomain ==
    promise.state = "rejected" =>
        /\ Contains(promise.message, server)
        /\ Contains(promise.message, domain)
        /\ Range(events) \cap {"end", "timeout"} = {} =>
              \E cause \in Causes : Contains(promise.message, cause)

\* C5: there is one connection, whatever happened; what was written is nothing
\* or the one request, the domain followed by CR LF, and it is written only after
\* 'connect'.
C5_OneConnectionOneRequest ==
    /\ connections = 1
    /\ written \in {<<>>, <<domain \o <<"\r", "\n">>>>}
    /\ written # <<>> => "connect" \in Range(events)

\* C5, witness: the request was written and the call has failed (by an error, a
\* timeout or an empty response).
C5_RequestWrittenThenFailed ==
    /\ written # <<>>
    /\ promise.state = "rejected"
    /\ sock = "destroyed"

(***************************************************************************)
(* Properties of two calls of whoisQuery (under SpecTwo)                   *)
(***************************************************************************)
RECURSIVE ownText(_)
\* The text of the chunks a call received, each chunk turned into text by itself.
ownText(chunks) ==
    IF chunks = <<>> THEN <<>> ELSE toString(Head(chunks)) \o ownText(Tail(chunks))

\* The events of a call that settle its promise.
Settling == {"end", "error", "timeout"}

\* What the promise of a call is, going by the events of its own socket alone:
\* the first of 'end', 'error' and 'timeout' decides.
ownOutcomes(c) ==
    LET settled == {k \in 1..Len(c.events) : c.events[k] \in Settling}
        first == c.events[Least(settled)]
    IN  IF settled = {} THEN {Pending}
        ELSE IF first = "end"
        THEN {IF isEmptyResponse(ownText(c.received))
              THEN Rejected(noDataMessage(c.server))
              ELSE Fulfilled(ownText(c.received))}
        ELSE IF first = "error"
        THEN {Rejected(errorMessage(c.server, cause)) : cause \in Causes}
        ELSE {Rejected(timeoutMessage(c.server, c.timeout))}

\* Whether the closure of a call is what the events of its own socket make it.
OwnEventsOnly(c) ==
    /\ c.connections = 1
    /\ c.written = IF "connect" \in Range(c.events) THEN <<request(c.domain)>> ELSE <<>>
    /\ c.data = ownText(c.received)
    /\ c.promise \in ownOutcomes(c)

\* C15: with two calls of whoisQuery running at the same time, whatever the order in
\* which the events of the two sockets are delivered, the request, the data and the
\* promise of each call are those that the events and the chunks of its own socket
\* give: nothing of the other call shows in them.
C15_CallsDoNotInterfere ==
    other # None => OwnEventsOnly(closure) /\ OwnEventsOnly(Val(other))

\* C15's case: both calls received data and ended, the events of the second call
\* delivered between those of the first, and each promise is resolved with the
\* text of its own call.
C15_BothResolved ==
    /\ other # None
    /\ call = 1
    /\ promise.state = "fulfilled" /\ Val(other).promise.state = "fulfilled"
    /\ Len(received) = 2 /\ Len(Val(other).received) = 2
    /\ promise.value # Val(other).promise.value

(***************************************************************************)
(* Properties of parseWhoisData (under SpecParse)                          *)
(***************************************************************************)
\* Whether a pattern of a generic single-value field matches in the text.
fieldMatched(text, fields) ==
    \E k \in 1..Len(fields) :
        \/ match(text, colonRe(fields[k])) # None
        \/ match(text, bracketRe(fields[k])) # None

datesMatched(text, patterns) == \E k \in 1..Len(patterns) : match(text, patterns[k]) # None

nameserversMatched(text) ==
    \/ \E k \in 1..Len(multilinePatterns) : match(text, multilinePatterns[k]) # None
    \/ \E k \in 1..Len(colonPatterns) : match(text, nsColonRe(colonPatterns[k])) # None
    \/ match(text, jpNameServerRe) # None

statusMatched(text) ==
    \/ match(text, statusSectionRe) # None
    \/ \E f \in {<<"D","o","m","a","i","n"," ","S","t","a","t","u","s">>, <<"S","t","a","t","u","s">>, <<"s","t","a","t","e">>} : match(text, multiRe(f)) # None

FieldNames == {"domainName", "registrar", "creationDate", "expirationDate",
               "nameservers", "registrant", "status", "dnssec", "lastModified"}

\* Whether the field of the record has a matching pattern in the text.
matched(text, name) ==
    CASE name = "domainName"     -> fieldMatched(text, domainFields)
      [] name = "registrar"      -> fieldMatched(text, registrarFields)
      [] name = "registrant"     -> fieldMatched(text, registrantFields)
      [] name = "dnssec"         -> fieldMatched(text, dnssecFields)
      [] name = "lastModified"   -> fieldMatched(text, lastModifiedFields)
      [] name = "creationDate"   -> datesMatched(text, creationPatterns)
      [] name = "expirationDate" -> datesMatched(text, expiryPatterns)
      [] name = "nameservers"    -> nameserversMatched(text)
      [] name = "status"         -> statusMatched(text)

GenericFields == {"registrar", "registrant", "dnssec", "lastModified"}

IsRecord(r) == "raised" \notin DOMAIN r /\ DOMAIN r = FieldNames

C7_NoEmptyStringField ==
    (parsed # None /\ fallbackDomain # Some(<<>>)) =>
        \A f \in FieldNames \ {"nameservers", "status"} : Val(parsed)[f] # Some(<<>>)

\* The values, trimmed and not empty, that the domain patterns matching in the
\* text capture.
domainValues(text) ==
    {v \in {trim(Val(match(text, re))[2]) :
               re \in {re \in {colonRe(domainFields[k]) : k \in 1..Len(domainFields)}
                              \cup {bracketRe(domainFields[k]) : k \in 1..Len(domainFields)} :
                          match(text, re) # None}} :
        v # <<>>}

\* C8, as claimed: without a matching domain pattern domainName is the fallback;
\* when a domain pattern matches with a value that is not empty, domainName is a
\* value parsed so and not the fallback.
C8_DomainParsedOrFallback ==
    parsed # None =>
        /\ ~matched(rawText, "domainName") => Val(parsed).domainName = fallbackDomain
        /\ domainValues(rawText) # {} =>
              Val(parsed).domainName \in {Some(v) : v \in domainValues(rawText)}

(***************************************************************************)
(* Properties of normalizeDateString (under SpecDate)                      *)
(***************************************************************************)
IsDigits(s) == \A k \in 1..Len(s) : s[k] \in DigitSet

\* Whether s is YYYY-MM-DDT00:00:00Z.
IsMidnightDate(s) ==
    /\ Len(s) = 20
    /\ IsDigits(SubSeq(s, 1, 4)) /\ s[5] = "-"
    /\ IsDigits(SubSeq(s, 6, 7)) /\ s[8] = "-"
    /\ IsDigits(SubSeq(s, 9, 10))
    /\ SubSeq(s, 11, 20) = <<"T","0","0",":","0","0",":","0","0","Z">>

IsEnglishMonth(word) == \E k \in 1..12 : monthNames[k] = toLowerCase(word)
EnglishMonthNumber(word) == monthNums[CHOOSE k \in 1..12 : monthNames[k] = toLowerCase(word)]

\* The day of a shape in two digits, when it has at most two.
TwoDigitDay(day) == IF Len(day) = 1 THEN <<"0">> \o day ELSE day

\* C9, as claimed: an ordinal date with an English month name, a date with
\* slashes and a date with dots are normalised to YYYY-MM-DDT00:00:00Z, the year
\* and the day taken from the input, the month from the input or the month table.
C9_SupportedShapes ==
    (/\ normalized # None
     /\ \/ dateShape.kind = "ordinal" /\ IsEnglishMonth(dateShape.month)
        \/ dateShape.kind \in {"slash", "dotted"}) =>
        /\ Val(normalized) # None
        /\ IsMidnightDate(Val(Val(normalized)))
        /\ SubSeq(Val(Val(normalized)), 1, 4) = dateShape.year
        /\ SubSeq(Val(Val(normalized)), 6, 7) =
              IF dateShape.kind = "ordinal" THEN EnglishMonthNumber(dateShape.month)
              ELSE dateShape.month
        /\ Len(dateShape.day) <= 2 =>
              SubSeq(Val(Val(normalized)), 9, 10) = TwoDigitDay(dateShape.day)

\* C10, as claimed: a non-empty input of none of the four shapes (any other text,
\* or an ordinal or recurring date whose month word is no English month name) is
\* returned as it is.
C10_OtherInputUnchanged ==
    (/\ normalized # None
     /\ dateInput # None /\ Val(dateInput) # <<>>
     /\ \/ dateShape.kind = "other"
        \/ dateShape.kind \in {"ordinal", "recurring"} /\ ~IsEnglishMonth(dateShape.month)) =>
        Val(normalized) = dateInput

\* C11, as claimed: a recurring date with an English month name is normalised to
\* (Y+1)-MM-DDT00:00:00Z, Y being the year of the clock at the call, the month
\* taken from the month table and the day from the input.
C11_RecurringNextYear ==
    (/\ normalized # None
     /\ dateShape.kind = "recurring" /\ IsEnglishMonth(dateShape.month)) =>
        /\ Val(normalized) # None
        /\ IsMidnightDate(Val(Val(normalized)))
        /\ SubSeq(Val(Val(normalized)), 1, 4) = IntToStr(clockYear + 1)
        /\ SubSeq(Val(Val(normalized)), 6, 7) = EnglishMonthNumber(dateShape.month)
        /\ Len(dateShape.day) <= 2 =>
              SubSeq(Val(Val(normalized)), 9, 10) = TwoDigitDay(dateShape.day)


(***************************************************************************)
(* Properties of two calls of parseWhoisData (under SpecReparse)           *)
(***************************************************************************)
\* The fields of a record that are dates.
DateFields == {"creationDate", "expirationDate"}

blockEntries(text, pattern) ==
    With(match(text, pattern), LAMBDA found :
        IF found = None THEN <<>> ELSE blockServers(Val(found)[2]))

\* The entries of the colon form: those of the first label with a line.
colonEntries(text) ==
    With(colonFrom(text, 1, Len(colonPatterns)), LAMBDA found :
        IF found = None THEN <<>> ELSE Val(found))

\* The entries of the bracketed form.
bracketEntries(text) ==
    With(matchAll(text, jpNameServerRe), LAMBDA found :
        IF found = None THEN <<>>
        ELSE [j \in 1..Len(Val(found)) |-> bracketServer(Val(found)[j])])

\* What the four strategies yield, in the order Block A, Block B, colon form,
\* bracketed form.
Strategies(text) ==
    <<blockEntries(text, nameServersBlockRe), blockEntries(text, nameserversBlockRe),
      colonEntries(text), bracketEntries(text)>>

\* The entries of the first strategy that yields any, None when none does.
FirstYielding(yields) ==
    IF \A k \in 1..Len(yields) : yields[k] = <<>> THEN None
    ELSE Some(yields[Least({k \in 1..Len(yields) : yields[k] # <<>>})])

\* C13: the nameservers field holds the entries of the first of Block A, Block B,
\* colon form and bracketed form that yields an entry, a header with an empty block
\* not ending the search; it is null when no strategy yields an entry and is never
\* the empty list.
C13_FirstYieldingStrategy ==
    (parsed # None /\ Val(parsed) # Raised) =>
        /\ Val(parsed).nameservers = With(rawText, LAMBDA text : FirstYielding(Strategies(text)))
        /\ Val(parsed).nameservers # Some(<<>>)

\* C13's case: the text has a Block A header with an empty block and a colon-form
\* line, and the entries are those of the colon form.
C13_EmptyBlockThenColon ==
    /\ parsed # None /\ Val(parsed) # Raised
    /\ match(rawText, nameServersBlockRe) # None
    /\ Strategies(rawText)[1] = <<>>
    /\ Strategies(rawText)[3] # <<>>
    /\ Val(parsed).nameservers = Some(Strategies(rawText)[3])

\* Whether an entry is a bare host name: a token that is not empty, holds no white
\* space and does not end with a dot.
IsBareHostname(entry) ==
    /\ entry # TypeError
    /\ entry # <<>>
    /\ \A k \in 1..Len(entry) : entry[k] \notin WhiteSpace
    /\ entry[Len(entry)] # "."

\* C14, as claimed: every entry of a non-null nameservers field is a bare host name,
\* whichever strategy gave it: not empty, without white space, and without a trailing
\* dot or a trailing IP annotation.
C14_BareHostnames ==
    (parsed # None /\ Val(parsed) # Raised /\ Val(parsed).nameservers # None) =>
        \A k \in 1..Len(Val(Val(parsed).nameservers)) :
            IsBareHostname(Val(Val(parsed).nameservers)[k])

(***************************************************************************)
(* Properties of parseStatus, parseField and parseMultipleFields (under    *)
(* SpecLines)                                                              *)
(***************************************************************************)
\* The entries of the 'Domain Status:' block, <<>> without a block.
statusBlockEntries(text) ==
    With(match(text, statusSectionRe), LAMBDA found :
        IF found = None THEN <<>>
        ELSE SelectSeq(trimmedLines(Val(found)[2]), isNotEmpty))

\* What the status strategies yield, in order: the block, then the lines of each
\* of the three labels.
StatusStrategies(text) ==
    <<statusBlockEntries(text), parseMultipleFields(text, <<"D","o","m","a","i","n"," ","S","t","a","t","u","s">>),
      parseMultipleFields(text, <<"S","t","a","t","u","s">>), parseMultipleFields(text, <<"s","t","a","t","e">>)>>

\* C16, as claimed: when the 'Domain Status:' block yields nothing, the status field
\* is the list of the values of the first of the labels Domain Status, Status and
\* state that has a line, and it is null only when none of them has one.
C16_StatusFallback ==
    (parsed # None /\ Val(parsed) # Raised) =>
        Val(parsed).status = With(rawText, LAMBDA text : FirstYielding(StatusStrategies(text)))

\* The labels of a generic field, in the declared order.
labelsOf(name) ==
    CASE name = "registrar"    -> registrarFields
      [] name = "registrant"   -> registrantFields
      [] name = "dnssec"       -> dnssecFields
      [] name = "lastModified" -> lastModifiedFields

\* Whether the colon form of the label, matched at x in the text, takes its value
\* from the line of the label: there is no line feed from the label to the value.
OnLabelLine(text, x) ==
    \A k \in x.b..(x.c[1][1] - 1) : text[k] # "\n"

\* C17, as claimed: when the colon form of the first label of a generic field
\* matches, the field is the trimmed rest of the line the label and its colon are
\* on, and holds nothing of a later line, also when nothing follows the colon.
C17_ValueFromLabelLine ==
    (parsed # None /\ Val(parsed) # Raised) =>
        \A name \in GenericFields :
            With(ExecFrom(colonRe(labelsOf(name)[1]), rawText, 1), LAMBDA x :
                x # None =>
                    /\ Val(parsed)[name]
                          = Some(trim(Slice(rawText, Val(x).c[1][1], Val(x).c[1][2])))
                    /\ OnLabelLine(rawText, Val(x)))

\* The (label, form) pairs of a list of labels as patterns, in the order colon
\* form of the first label, its bracketed form, colon form of the second label, ...
Pairs(labels) ==
    [k \in 1..(2 * Len(labels)) |->
        IF k % 2 = 1 THEN colonRe(labels[(k + 1) \div 2]) ELSE bracketRe(labels[k \div 2])]

\* The trimmed value of the first pair that matches in the text, None when no pair
\* matches.
FirstPairValue(text, pairs) ==
    With([k \in 1..Len(pairs) |-> match(text, pairs[k])], LAMBDA found :
        IF \A k \in 1..Len(pairs) : found[k] = None THEN None
        ELSE Some(trim(Val(found[Least({k \in 1..Len(pairs) : found[k] # None})])[2])))

StatusLabels == {<<"D","o","m","a","i","n"," ","S","t","a","t","u","s">>, <<"S","t","a","t","u","s">>, <<"s","t","a","t","e">>}

\* For every line `label: value` of the text, in order, the whole of the value after
\* the colon of the label, trimmed.
LineValues(text, label) ==
    With(matchAll(text, multiRe(label)), LAMBDA lines :
        IF lines = None THEN <<>>
        ELSE [k \in 1..Len(Val(lines)) |->
                 trim(SubSeq(Val(lines)[k], Len(label) + 2, Len(Val(lines)[k])))])

\* C19, as claimed: parseMultipleFields returns, in order, one entry for every line
\* `label: value`, the entry being the whole value after the colon of the label,
\* trimmed, also when the value holds a colon, and the empty list without such a
\* line; the status field of a text without a status block holds these entries for
\* the label Domain Status.
C19_WholeValues ==
    (parsed # None /\ Val(parsed) # Raised) =>
        /\ \A label \in StatusLabels :
              With(rawText, LAMBDA text : parseMultipleFields(text, label) = LineValues(text, label))
        /\ (/\ statusBlockEntries(rawText) = <<>>
            /\ LineValues(rawText, <<"D","o","m","a","i","n"," ","S","t","a","t","u","s">>) # <<>>) =>
                Val(parsed).status = Some(LineValues(rawText, <<"D","o","m","a","i","n"," ","S","t","a","t","u","s">>))

(***************************************************************************)
(* Properties of the second block form (under SpecNameservers)             *)
(***************************************************************************)
\* The lines of the block after the first line 'Nameservers': those up to the next
\* empty line or the next line that begins with an upper-case letter; <<>> without
\* such a header.
BlockBLines(text) ==
    With(split(text, "\n"), LAMBDA lines :
    With({k \in 1..Len(lines) : lines[k] = <<"N","a","m","e","s","e","r","v","e","r","s">>}, LAMBDA headers :
        IF headers = {} THEN <<>>
        ELSE With({k \in (Least(headers) + 1)..(Len(lines) + 1) :
                      \/ k = Len(lines) + 1
                      \/ lines[k] = <<>>
                      \/ lines[k][1] \in UpperSet}, LAMBDA stops :
             SubSeq(lines, Least(headers) + 1, Least(stops) - 1))))

\* C20, as claimed: without entries from the first block form, a text with a line
\* 'Nameservers' yields the first token of every line from that header up to the
\* next empty line or the next line beginning with an upper-case letter, also of
\* lines that begin with a lower-case letter or with a blank, in order.
C20_BlockBEveryLine ==
    (/\ parsed # None /\ Val(parsed) # Raised
     /\ Strategies(rawText)[1] = <<>>
     /\ BlockBLines(rawText) # <<>>) =>
        Val(parsed).nameservers
            = Some([k \in 1..Len(BlockBLines(rawText)) |->
                       firstWord(trim(BlockBLines(rawText)[k]))])

\* Whether text s holds text sub at place i.
HoldsAt(s, sub, i) == i + Len(sub) - 1 <= Len(s) /\ SubSeq(s, i, i + Len(sub) - 1) = sub

\* The places after the first 'Name servers:' where its block ends: at an empty
\* line or at the marker 'WHOIS lookup'.
BlockAEnds(text, from) ==
    {k \in from..Len(text) : HoldsAt(text, <<"\n","\n">>, k) \/ HoldsAt(text, <<"W","H","O","I","S"," ","l","o","o","k","u","p">>, k)}

\* The text between the first 'Name servers:' and the end of its block; None
\* without the header or without an end.
BlockAText(text) ==
    With({k \in 1..Len(text) : HoldsAt(text, <<"N","a","m","e"," ","s","e","r","v","e","r","s",":">>, k)}, LAMBDA headers :
        IF headers = {} THEN None
        ELSE With(Least(headers) + Len(<<"N","a","m","e"," ","s","e","r","v","e","r","s",":">>), LAMBDA from :
             With(BlockAEnds(text, from), LAMBDA ends :
                 IF ends = {} THEN None
                 ELSE Some(SubSeq(text, from, Least(ends) - 1)))))

\* C21, as claimed: for a text with a 'Name servers:' header the nameservers are
\* the first tokens of the lines, blank lines and lines starting with 'WHOIS' left
\* out, between the header and the next empty line or 'WHOIS lookup' marker, in
\* order; nothing after the empty line is among them, so a header with nothing
\* before the empty line leaves the field to the other strategies.
C21_BlockAUpToBlankLine ==
    (parsed # None /\ Val(parsed) # Raised /\ BlockAText(rawText) # None) =>
        With(blockServers(Val(BlockAText(rawText))), LAMBDA expected :
            Val(parsed).nameservers =
                IF expected # <<>> THEN Some(expected)
                ELSE With(rawText, LAMBDA text :
                         FirstYielding(<<Strategies(text)[2], Strategies(text)[3],
                                         Strategies(text)[4]>>)))

(***************************************************************************)
(* Properties of parseCreationDate and parseExpiryDate (under SpecDates)   *)
(***************************************************************************)
\* The trimmed capture of the first pattern of the list, in the order of the
\* list, that matches in the text; None when no pattern matches.
FirstCapture(text, patterns) ==
    With([k \in 1..Len(patterns) |-> match(text, patterns[k])], LAMBDA found :
        IF \A k \in 1..Len(patterns) : found[k] = None THEN None
        ELSE Some(trim(Val(found[Least({k \in 1..Len(patterns) : found[k] # None})])[2])))

\* Whether one of the four rules of normalizeDateString recognises the text.
Recognised(dateStr) ==
    \/ match(dateStr, ggRe) # None
    \/ match(dateStr, recurringRe) # None
    \/ match(dateStr, jpRe) # None
    \/ match(dateStr, krRe) # None

\* What C22 says of one date field with its list of patterns.
DateFromFirstPattern(field, text, patterns, thisYear) ==
    With(FirstCapture(text, patterns), LAMBDA capture :
        /\ capture = None => field = None
        /\ capture # None =>
              /\ field = normalizeDateString(capture, thisYear)
              /\ field # None
              /\ ~Recognised(Val(capture)) => field = capture)

\* C22, as claimed: creationDate and expirationDate are each normalizeDateString of
\* the trimmed capture of the first pattern of the field's own list, in the order
\* of the list, that matches anywhere in the text; a capture that no rule
\* recognises is returned as it is, and the field is null only when no pattern of
\* its list matches.
C22_DatesFromFirstPattern ==
    (parsed # None /\ Val(parsed) # Raised) =>
        /\ DateFromFirstPattern(Val(parsed).creationDate, rawText, creationPatterns, clockYear)
        /\ DateFromFirstPattern(Val(parsed).expirationDate, rawText, expiryPatterns, clockYear)

\* What C22, amended, says of one date field with its list of patterns.
DateFromFirstPatternUnlessBlank(field, text, patterns, thisYear) ==
    With(FirstCapture(text, patterns), LAMBDA capture :
        /\ capture = None => field = None
        /\ capture # None =>
              /\ field = normalizeDateString(capture, thisYear)
              /\ field = None <=> Val(capture) = <<>>
              /\ (Val(capture) # <<>> /\ ~Recognised(Val(capture))) => field = capture)

\* C22, amended: each date field is normalizeDateString of the trimmed capture of
\* the first pattern of its own list, in the order of the list, that matches
\* anywhere in the text; a capture that is not empty and that no rule recognises is
\* returned as it is; the field is null when no pattern of its list matches and
\* when the capture of the first matching pattern is blank, and only then.
C22_DatesFromFirstPatternUnlessBlank ==
    (parsed # None /\ Val(parsed) # Raised) =>
        /\ DateFromFirstPatternUnlessBlank(Val(parsed).creationDate, rawText,
                                           creationPatterns, clockYear)
        /\ DateFromFirstPatternUnlessBlank(Val(parsed).expirationDate, rawText,
                                           expiryPatterns, clockYear)

\* C22's case: a line of the second creation pattern stands before a line of the
\* first in the text, the creation date is that of the first pattern, and the
\* expiry date, from its own list, is null.
C22_ListOrderBeatsPosition ==
    /\ parsed # None /\ Val(parsed) # Raised
    /\ match(rawText, creationPatterns[1]) # None
    /\ match(rawText, creationPatterns[2]) # None
    /\ Val(ExecFrom(creationPatterns[2], rawText, 1)).b
          < Val(ExecFrom(creationPatterns[1], rawText, 1)).b
    /\ Val(parsed).creationDate
          = normalizeDateString(Some(trim(Val(match(rawText, creationPatterns[1]))[2])),
                                clockYear)
    /\ Val(parsed).creationDate
          # normalizeDateString(Some(trim(Val(match(rawText, creationPatterns[2]))[2])),
                                clockYear)
    /\ Val(parsed).expirationDate = None

(***************************************************************************)
(* Properties of the promise of whoisQuery (under Spec)                    *)
(***************************************************************************)
\* What an event delivered with the promise pending makes of the promise, with the
\* text received so far.
outcomesOf(event) ==
    IF event = "end"
    THEN {IF isEmptyResponse(data) THEN Rejected(noDataMessage(server)) ELSE Fulfilled(data)}
    ELSE IF event = "error" THEN {Rejected(errorMessage(server, cause)) : cause \in Causes}
    ELSE IF event = "timeout" THEN {Rejected(timeoutMessage(server, timeout))}
    ELSE {Pending}

\* C23: the promise whoisQuery returned settles at most once and its outcome is that
\* of the first of the 'end', 'error' and 'timeout' events: a step taken with the
\* promise settled, whatever event it delivers, leaves the outcome and the text it
\* was resolved with as they were; with the promise pending, an 'end', an 'error'
\* or a timeout settles it with the outcome of that event, any other event leaves
\* it pending, and without an event it does not change.
C23_SettlesOnce ==
    [][/\ promise.state # "pending" => promise' = promise
       /\ (promise.state = "pending" /\ events' # events)
              => promise' \in outcomesOf(events'[Len(events')])
       /\ events' = events => promise' = promise]_vars

\* C23's case: 'end' resolved the promise with the text received, an 'error' of the
\* closing socket was delivered afterwards, and the promise is still resolved with
\* that text.
C23_ErrorAfterEnd ==
    /\ Len(events) >= 2
    /\ events[Len(events)] = "error"
    /\ events[Len(events) - 1] = "end"
    /\ promise = Fulfilled(data)
    /\ data # <<>>
(***************************************************************************)
(* Properties of the line ends (under SpecTerminators)                     *)
(***************************************************************************)
\* C24, as claimed: parseWhoisData gives the same nameservers list and the same
\* status list for a text with LF line ends and for the same text with every LF
\* replaced by CRLF; an empty line that ends with CRLF closes a block as one that
\* ends with LF does.
C24_SameListsWithCRLF ==
    (parsedCRLF # None /\ Val(parsed) # Raised) =>
        /\ Val(parsedCRLF) # Raised
        /\ Val(parsedCRLF).nameservers = Val(parsed).nameservers
        /\ Val(parsedCRLF).status = Val(parsed).status
====
